---- MODULE Spec2Model ----
(***************************************************************************)
(* Model of the map-agent orchestrator (src/src/agents/orchestrator.py)   *)
(* and of the three tool backends it dispatches to (geocoding, routing,   *)
(* tiles).                                                                 *)
(*                                                                         *)
(* Python values are modelled as follows.  A dict is a function whose     *)
(* domain is its set of keys (a parsed JSON value carries its type as     *)
(* well).  An optional field of a pydantic model is                       *)
(* <<>> (None) or <<v>>.  A formatted message (an f-string) is the tuple  *)
(* of its pieces.  A call that can raise returns a record with a          *)
(* "raised" flag; the remote services are the environment: each outbound  *)
(* request draws one outcome from Outcomes.                                *)
(***************************************************************************)
EXTENDS Integers, Sequences, FiniteSets, TLC

VARIABLES
    pc,                 \* position of process_query
    user_message,       \* the argument of process_query
    messages,           \* the transcript (local `messages`)
    tool_calls_made,    \* the ToolCallRecord list (local `tool_calls_made`)
    iteration_count,    \* local `iteration_count`
    tool_calls,         \* tool_calls of the response being processed
    idx,                \* index of the next tool call in the for loop
    returned,           \* <<>> or <<[text, records]>>: the returned tuple
    fault,              \* "" or the exception that left process_query
    submissions,        \* history: every transcript passed to the service
    responses,          \* history: what each submission produced
    dispatched,         \* history: every _execute_tool invocation
    handled,            \* history: every direct call of a backend handler
    calls,              \* the locals of each process_query call in flight
    tools,              \* self.tools, the catalog built at construction
    service             \* the completion service behind self.client, when fixed

vars == <<pc, user_message, messages, tool_calls_made, iteration_count,
          tool_calls, idx, returned, fault, submissions, responses,
          dispatched, handled, calls, tools, service>>

-----------------------------------------------------------------------------
(* Python values *)

None == <<>>
Some(v) == <<v>>

\* a parsed JSON value: a dict (items: key -> value) or a list (items: a tuple)
PyDict(f) == [type |-> "dict", items |-> f]
PyList(s) == [type |-> "list", items |-> s]
EmptyDict == PyDict(<<>>)

\* d.get(k, default), d a dict
dict_get(d, k, default) == IF k \in DOMAIN d.items THEN d.items[k] ELSE default

Range(s) == {s[i] : i \in DOMAIN s}

Ret(v, reqs) == [raised |-> FALSE, exc |-> "", value |-> v, requests |-> reqs]
Raise(e, reqs) == [raised |-> TRUE, exc |-> e, value |-> <<>>, requests |-> reqs]

\* tool_input.get(...) on a value that is no dict raises AttributeError
needs_dict(tool_input, r) ==
    IF tool_input.type = "dict" THEN r ELSE Raise("AttributeError", <<>>)

-----------------------------------------------------------------------------
(* src/agents/schemas.py *)

ToolUsage(endpoint) == [endpoint |-> endpoint]

ToolResponse(status, data, message, usage, error_code) ==
    [status |-> Some(status), data |-> data, message |-> message,
     usage |-> usage, error_code |-> error_code]

\* BaseModel.model_dump(exclude_none=True): the fields that are not None
model_dump(r) == [k \in {f \in DOMAIN r : r[f] # None} |-> r[k][1]]

-----------------------------------------------------------------------------
(* The remote services: one outcome per outbound request *)

Outcomes == {"ok", "empty", "timeout", "http_error", "bad_body"}

-----------------------------------------------------------------------------
(* src/servers/routing/client.py: OSRMClient *)

\* the except clauses shared by route, distance_matrix and match_trace
osrm_failure(o, endpoint) ==
    CASE o = "timeout" ->
            Ret(ToolResponse("error", None, Some(<<"OSRM request timed out">>),
                             Some(ToolUsage(endpoint)), Some("TIMEOUT")),
                <<endpoint>>)
      [] o = "http_error" ->
            Ret(ToolResponse("error", None, Some(<<"OSRM API error: ", o>>),
                             Some(ToolUsage(endpoint)), Some("HTTP_ERROR")),
                <<endpoint>>)
      [] OTHER -> Raise("ValueError", <<endpoint>>)   \* response.json() fails

\* a route whose "No route found" error carries a data payload
OSRMClient_route_data_on_error(start_lat, start_lon, end_lat, end_lon, profile, net) ==
    LET endpoint == <<"/route/v1/", profile, start_lon, start_lat, end_lon, end_lat>>
        o == net[1]
    IN  IF o \in {"ok", "empty"}
        THEN Ret(ToolResponse(IF o = "ok" THEN "success" ELSE "error",
                     Some([distance_meters |-> 1200, duration_seconds |-> 300,
                           geometry |-> "geojson", legs |-> "legs",
                           profile |-> profile]),
                     Some(<<"Route found: ", 1200, " km, ", 300, " minutes">>),
                     Some(ToolUsage(endpoint)),
                     IF o = "ok" THEN None ELSE Some("NO_ROUTE")),
                 <<endpoint>>)
        ELSE osrm_failure(o, endpoint)

OSRMClient_route(start_lat, start_lon, end_lat, end_lon, profile, net) ==
    LET endpoint == <<"/route/v1/", profile, start_lon, start_lat, end_lon, end_lat>>
        o == net[1]
    IN  IF o = "ok"
        THEN Ret(ToolResponse("success",
                     Some([distance_meters |-> 1200, duration_seconds |-> 300,
                           geometry |-> "geojson", legs |-> "legs",
                           profile |-> profile]),
                     Some(<<"Route found: ", 1200, " km, ", 300, " minutes">>),
                     Some(ToolUsage(endpoint)), None),
                 <<endpoint>>)
        ELSE IF o = "empty"
        THEN Ret(ToolResponse("error", None, Some(<<"No route found">>),
                              Some(ToolUsage(endpoint)), Some("NO_ROUTE")),
                 <<endpoint>>)
        ELSE osrm_failure(o, endpoint)

OSRMClient_distance_matrix(sources, destinations, profile, net) ==
    IF sources = <<>> \/ destinations = <<>>
    THEN Ret(ToolResponse("error", None,
                 Some(<<"Sources and destinations must not be empty">>),
                 None, Some("INVALID_INPUT")),
             <<>>)
    ELSE
    LET endpoint == <<"/table/v1/", profile, sources \o destinations>>
        o == net[1]
    IN  IF o = "ok"
        THEN Ret(ToolResponse("success",
                     Some([distances |-> "None", durations |-> "durations",
                           sources |-> "sources", destinations |-> "destinations",
                           profile |-> profile]),
                     Some(<<"Distance matrix computed for ", Len(sources),
                            " sources and ", Len(destinations), " destinations">>),
                     Some(ToolUsage(endpoint)), None),
                 <<endpoint>>)
        ELSE IF o = "empty"
        THEN Ret(ToolResponse("error", None, Some(<<"OSRM error: ", "Unknown error">>),
                              Some(ToolUsage(endpoint)), Some("OSRM_ERROR")),
                 <<endpoint>>)
        ELSE osrm_failure(o, endpoint)

\* a size check that lets a single coordinate through
OSRMClient_match_trace_empty_only(coordinates, profile, net) ==
    IF Len(coordinates) < 1
    THEN Ret(ToolResponse("error", None, Some(<<"Need at least 2 coordinates">>),
                          None, Some("INVALID_INPUT")),
             <<>>)
    ELSE
    LET endpoint == <<"/match/v1/", profile, coordinates>>
        o == net[1]
    IN  IF o = "ok"
        THEN Ret(ToolResponse("success",
                     Some([matchings |-> "matchings", tracepoints |-> "tracepoints",
                           profile |-> profile]),
                     Some(<<"Matched ", 1, " segment(s)">>),
                     Some(ToolUsage(endpoint)), None),
                 <<endpoint>>)
        ELSE IF o = "empty"
        THEN Ret(ToolResponse("error", None, Some(<<"OSRM error: ", "Unknown error">>),
                              Some(ToolUsage(endpoint)), Some("OSRM_ERROR")),
                 <<endpoint>>)
        ELSE osrm_failure(o, endpoint)

OSRMClient_match_trace(coordinates, profile, net) ==
    IF Len(coordinates) < 2
    THEN Ret(ToolResponse("error", None, Some(<<"Need at least 2 coordinates">>),
                          None, Some("INVALID_INPUT")),
             <<>>)
    ELSE
    LET endpoint == <<"/match/v1/", profile, coordinates>>
        o == net[1]
    IN  IF o = "ok"
        THEN Ret(ToolResponse("success",
                     Some([matchings |-> "matchings", tracepoints |-> "tracepoints",
                           profile |-> profile]),
                     Some(<<"Matched ", 1, " segment(s)">>),
                     Some(ToolUsage(endpoint)), None),
                 <<endpoint>>)
        ELSE IF o = "empty"
        THEN Ret(ToolResponse("error", None, Some(<<"OSRM error: ", "Unknown error">>),
                              Some(ToolUsage(endpoint)), Some("OSRM_ERROR")),
                 <<endpoint>>)
        ELSE osrm_failure(o, endpoint)

-----------------------------------------------------------------------------
(* src/servers/routing/tools.py *)

get_routing_tools == <<"route", "distance_matrix", "match_trace">>

\* result.model_dump(exclude_none=True) of a client call that returned
dumped(r) == IF r.raised THEN r ELSE Ret(model_dump(r.value), r.requests)

\* [(coord[0], coord[1]) for coord in coords]: every coord needs two items
pairs_ok(coords) == \A i \in DOMAIN coords : Len(coords[i]) >= 2
to_pairs(coords) == [i \in DOMAIN coords |-> <<coords[i][1], coords[i][2]>>]

\* a handler without the single-pair shortcut
handle_routing_tool_table_only(tool_name, tool_input, net) ==
    IF tool_name = "route"
    THEN needs_dict(tool_input,
         dumped(OSRMClient_route(dict_get(tool_input, "start_latitude", 0),
                                 dict_get(tool_input, "start_longitude", 0),
                                 dict_get(tool_input, "end_latitude", 0),
                                 dict_get(tool_input, "end_longitude", 0),
                                 dict_get(tool_input, "profile", "car"), net)))
    ELSE IF tool_name = "distance_matrix"
    THEN needs_dict(tool_input,
         LET src == dict_get(tool_input, "sources", <<>>)
             dst == dict_get(tool_input, "destinations", <<>>)
             profile == dict_get(tool_input, "profile", "car")
         IN  IF ~pairs_ok(src) \/ ~pairs_ok(dst)
             THEN Raise("IndexError", <<>>)
             ELSE dumped(OSRMClient_distance_matrix(to_pairs(src), to_pairs(dst),
                                                    profile, net)))
    ELSE IF tool_name = "match_trace"
    THEN needs_dict(tool_input,
         LET coords == dict_get(tool_input, "coordinates", <<>>)
         IN  IF ~pairs_ok(coords)
             THEN Raise("IndexError", <<>>)
             ELSE dumped(OSRMClient_match_trace(to_pairs(coords),
                                                dict_get(tool_input, "profile", "car"),
                                                net)))
    ELSE Ret([status |-> "error", message |-> <<"Unknown tool: ", tool_name>>], <<>>)

handle_routing_tool(tool_name, tool_input, net) ==
    IF tool_name = "route"
    THEN needs_dict(tool_input,
         dumped(OSRMClient_route(dict_get(tool_input, "start_latitude", 0),
                                 dict_get(tool_input, "start_longitude", 0),
                                 dict_get(tool_input, "end_latitude", 0),
                                 dict_get(tool_input, "end_longitude", 0),
                                 dict_get(tool_input, "profile", "car"), net)))
    ELSE IF tool_name = "distance_matrix"
    THEN needs_dict(tool_input,
         LET src == dict_get(tool_input, "sources", <<>>)
             dst == dict_get(tool_input, "destinations", <<>>)
             profile == dict_get(tool_input, "profile", "car")
         IN  IF ~pairs_ok(src) \/ ~pairs_ok(dst)
             THEN Raise("IndexError", <<>>)
             ELSE IF Len(src) = 1 /\ Len(dst) = 1
             THEN dumped(OSRMClient_route(to_pairs(src)[1][1], to_pairs(src)[1][2],
                                          to_pairs(dst)[1][1], to_pairs(dst)[1][2],
                                          profile, net))
             ELSE dumped(OSRMClient_distance_matrix(to_pairs(src), to_pairs(dst),
                                                    profile, net)))
    ELSE IF tool_name = "match_trace"
    THEN needs_dict(tool_input,
         LET coords == dict_get(tool_input, "coordinates", <<>>)
         IN  IF ~pairs_ok(coords)
             THEN Raise("IndexError", <<>>)
             ELSE dumped(OSRMClient_match_trace(to_pairs(coords),
                                                dict_get(tool_input, "profile", "car"),
                                                net)))
    ELSE Ret([status |-> "error", message |-> <<"Unknown tool: ", tool_name>>], <<>>)

-----------------------------------------------------------------------------
(* src/servers/geocoding/client.py: NominatimClient *)

nominatim_failure(o, endpoint) ==
    CASE o = "timeout" ->
            Ret(ToolResponse("error", None, Some(<<"Nominatim request timed out">>),
                             Some(ToolUsage(endpoint)), Some("TIMEOUT")),
                <<endpoint>>)
      [] o = "http_error" ->
            Ret(ToolResponse("error", None, Some(<<"Nominatim API error: ", o>>),
                             Some(ToolUsage(endpoint)), Some("HTTP_ERROR")),
                <<endpoint>>)
      [] OTHER -> Raise("ValueError", <<endpoint>>)   \* response.json() fails

NominatimClient_forward_geocode(query, limit, net) ==
    LET endpoint == <<"/search", query, limit>>
        o == net[1]
    IN  IF o = "empty"
        THEN Ret(ToolResponse("success", Some([results |-> <<>>, query |-> query]),
                              Some(<<"No results found">>),
                              Some(ToolUsage(endpoint)), None),
                 <<endpoint>>)
        ELSE IF o = "ok"
        THEN Ret(ToolResponse("success",
                              Some([results |-> <<"place">>, query |-> query]),
                              Some(<<"Found ", 1, " result(s)">>),
                              Some(ToolUsage(endpoint)), None),
                 <<endpoint>>)
        ELSE nominatim_failure(o, endpoint)

NominatimClient_reverse_geocode(latitude, longitude, net) ==
    LET endpoint == <<"/reverse", latitude, longitude>>
        o == net[1]
    IN  IF o \in {"ok", "empty"}
        THEN Ret(ToolResponse("success",
                     Some([address |-> IF o = "ok" THEN "address" ELSE "{}",
                           display_name |-> IF o = "ok" THEN "display_name" ELSE "",
                           latitude |-> latitude, longitude |-> longitude]),
                     Some(<<"Reverse geocoding successful">>),
                     Some(ToolUsage(endpoint)), None),
                 <<endpoint>>)
        ELSE nominatim_failure(o, endpoint)

\* radii that double at the second attempt
search_radii_doubling(radius) == <<radius, radius * 2, radius * 3, radius * 5>>

\* search_radii = [radius, radius * 1.5, radius * 3, radius * 5]
search_radii(radius) == <<radius, (radius * 3) \div 2, radius * 3, radius * 5>>

\* one Overpass request: [raised, elements]; a timeout or an HTTP error is
\* swallowed and yields no elements
_search_overpass(radius, amenity_tag, o) ==
    CASE o = "ok" -> [raised |-> FALSE, elements |-> <<"element">>]
      [] o \in {"empty", "timeout", "http_error"} -> [raised |-> FALSE, elements |-> <<>>]
      [] OTHER -> [raised |-> TRUE, elements |-> <<>>]

\* the for loop over search_radii, from the i-th radius on
RECURSIVE poi_loop(_, _, _, _, _)
poi_loop(radii, i, amenity_tag, net, reqs) ==
    LET r == _search_overpass(radii[i], amenity_tag, net[i])
        made == Append(reqs, <<"overpass", radii[i], amenity_tag>>)
    IN  IF r.raised THEN [raised |-> TRUE, results |-> <<>>, search_radius |-> radii[i],
                          requests |-> made]
        ELSE IF r.elements # <<>> \/ i = Len(radii)
        THEN [raised |-> FALSE, results |-> r.elements, search_radius |-> radii[i],
              requests |-> made]
        ELSE poi_loop(radii, i + 1, amenity_tag, net, made)

amenity_map == [restaurant |-> "amenity=restaurant", cafe |-> "amenity=cafe",
                museum |-> "tourism=museum"]

NominatimClient_poi_search(query, latitude, longitude, radius, net) ==
    LET amenity_tag == IF query \in DOMAIN amenity_map THEN amenity_map[query]
                       ELSE <<"name~", query>>
        radii == search_radii(radius)
        found == poi_loop(radii, 1, amenity_tag, net, <<>>)
        endpoint == "OVERPASS_API"
    IN  IF found.raised THEN Raise("ValueError", found.requests)
        ELSE IF found.results = <<>>
        THEN Ret(ToolResponse("success",
                     Some([results |-> <<>>, query |-> query,
                           center |-> <<latitude, longitude>>]),
                     Some(<<"No ", query, "(s) found within ", radii[Len(radii)], "m radius">>),
                     Some(ToolUsage(endpoint)), None),
                 found.requests)
        ELSE Ret(ToolResponse("success",
                     Some([results |-> found.results, query |-> query,
                           center |-> <<latitude, longitude>>,
                           search_radius_meters |-> found.search_radius,
                           total_found |-> Len(found.results)]),
                     Some(<<"Found ", Len(found.results), " ", query, "(s) near the location">>),
                     Some(ToolUsage(endpoint)), None),
                 found.requests)

-----------------------------------------------------------------------------
(* src/servers/geocoding/tools.py *)

get_geocoding_tools == <<"forward_geocode", "reverse_geocode", "poi_search">>

\* a handler that raises on a name it does not own
handle_geocoding_tool_raises(tool_name, tool_input, net) ==
    IF tool_name = "forward_geocode"
    THEN needs_dict(tool_input,
         dumped(NominatimClient_forward_geocode(dict_get(tool_input, "query", ""),
                                                dict_get(tool_input, "limit", 5), net)))
    ELSE IF tool_name = "reverse_geocode"
    THEN needs_dict(tool_input,
         dumped(NominatimClient_reverse_geocode(dict_get(tool_input, "latitude", 0),
                                                dict_get(tool_input, "longitude", 0), net)))
    ELSE IF tool_name = "poi_search"
    THEN needs_dict(tool_input,
         dumped(NominatimClient_poi_search(dict_get(tool_input, "query", ""),
                                           dict_get(tool_input, "latitude", 0),
                                           dict_get(tool_input, "longitude", 0),
                                           dict_get(tool_input, "radius", 1000), net)))
    ELSE Raise("ValueError", <<>>)

handle_geocoding_tool(tool_name, tool_input, net) ==
    IF tool_name = "forward_geocode"
    THEN needs_dict(tool_input,
         dumped(NominatimClient_forward_geocode(dict_get(tool_input, "query", ""),
                                                dict_get(tool_input, "limit", 5), net)))
    ELSE IF tool_name = "reverse_geocode"
    THEN needs_dict(tool_input,
         dumped(NominatimClient_reverse_geocode(dict_get(tool_input, "latitude", 0),
                                                dict_get(tool_input, "longitude", 0), net)))
    ELSE IF tool_name = "poi_search"
    THEN needs_dict(tool_input,
         dumped(NominatimClient_poi_search(dict_get(tool_input, "query", ""),
                                           dict_get(tool_input, "latitude", 0),
                                           dict_get(tool_input, "longitude", 0),
                                           dict_get(tool_input, "radius", 1000), net)))
    ELSE Ret([status |-> "error", message |-> <<"Unknown tool: ", tool_name>>], <<>>)

-----------------------------------------------------------------------------
(* src/servers/tiles/providers.py *)

TILE_PROVIDERS ==
    [openstreetmap |-> [name |-> "OpenStreetMap",
                        attribution |-> "&copy; OpenStreetMap contributors",
                        license |-> "ODbL"],
     stamen_toner |-> [name |-> "Stamen Toner",
                       attribution |-> "Map tiles by Stadia Maps, Data by OpenStreetMap",
                       license |-> "CC BY 3.0"],
     stamen_tonerbackground |-> [name |-> "Stamen Toner Background",
                       attribution |-> "Map tiles by Stadia Maps, Data by OpenStreetMap",
                       license |-> "CC BY 3.0"],
     carto_positron |-> [name |-> "CARTO Positron",
                         attribution |-> "&copy; OpenStreetMap contributors &copy; CARTO",
                         license |-> "CC BY 4.0"],
     carto_voyager |-> [name |-> "CARTO Voyager",
                        attribution |-> "&copy; OpenStreetMap contributors &copy; CARTO",
                        license |-> "CC BY 4.0"],
     usgs_topo |-> [name |-> "USGS Topo", attribution |-> "USGS",
                    license |-> "Public Domain"]]

\* TILE_PROVIDERS.get(provider_id)
get_tile_provider(provider_id) ==
    IF provider_id \in DOMAIN TILE_PROVIDERS THEN Some(TILE_PROVIDERS[provider_id]) ELSE None

\* {**provider, "id": provider_id}, or None
get_provider_info(provider_id) ==
    LET provider == get_tile_provider(provider_id)
    IN  IF provider # None
        THEN Some([name |-> provider[1].name, attribution |-> provider[1].attribution,
                   license |-> provider[1].license, id |-> provider_id])
        ELSE None

\* an attribution that defaults to the empty string
get_attribution_or_empty(provider_id) ==
    LET provider == get_tile_provider(provider_id)
    IN  IF provider # None THEN Some(provider[1].attribution) ELSE Some("")

get_attribution(provider_id) ==
    LET provider == get_tile_provider(provider_id)
    IN  IF provider # None THEN Some(provider[1].attribution) ELSE None

-----------------------------------------------------------------------------
(* src/servers/tiles/tools.py *)

get_tiles_tools == <<"list_tile_providers", "get_tile_provider_info", "get_tile_attribution">>

handle_tiles_tool(tool_name, tool_input, net) ==
    IF tool_name = "list_tile_providers"
    THEN dumped(Ret(ToolResponse("success",
                        Some([providers |-> DOMAIN TILE_PROVIDERS,
                              count |-> Cardinality(DOMAIN TILE_PROVIDERS)]),
                        Some(<<"Found ", Cardinality(DOMAIN TILE_PROVIDERS), " tile providers">>),
                        None, None), <<>>))
    ELSE IF tool_name = "get_tile_provider_info"
    THEN needs_dict(tool_input,
         LET provider_id == dict_get(tool_input, "provider_id", "")
             info == get_provider_info(provider_id)
         IN  IF info = None
             THEN dumped(Ret(ToolResponse("error", None,
                                 Some(<<"Provider '", provider_id, "' not found">>),
                                 None, Some("NOT_FOUND")), <<>>))
             ELSE dumped(Ret(ToolResponse("success", info,
                                 Some(<<"Provider information for ", provider_id>>),
                                 None, None), <<>>)))
    ELSE IF tool_name = "get_tile_attribution"
    THEN needs_dict(tool_input,
         LET provider_id == dict_get(tool_input, "provider_id", "")
             attribution == get_attribution(provider_id)
         IN  IF attribution = None
             THEN dumped(Ret(ToolResponse("error", None,
                                 Some(<<"Provider '", provider_id, "' not found">>),
                                 None, Some("NOT_FOUND")), <<>>))
             ELSE dumped(Ret(ToolResponse("success",
                                 Some([provider_id |-> provider_id,
                                       attribution |-> attribution[1]]),
                                 Some(<<"Attribution for ", provider_id>>),
                                 None, None), <<>>)))
    ELSE dumped(Ret(ToolResponse("error", None, Some(<<"Unknown tool: ", tool_name>>),
                                 None, Some("UNKNOWN_TOOL")), <<>>))

-----------------------------------------------------------------------------
(* src/agents/orchestrator.py: the dispatcher *)

\* tools = []; tools.extend(...) for each provider's catalog in turn
_build_tools_of(geocoding, routing, tiles) == geocoding \o routing \o tiles

\* a catalog that starts with the routing tools
_build_tools_routing_first ==
    _build_tools_of(get_routing_tools, get_geocoding_tools, get_tiles_tools)

\* MapAgentOrchestrator._build_tools: the names of the tool catalog
_build_tools == _build_tools_of(get_geocoding_tools, get_routing_tools, get_tiles_tools)

\* a dispatcher that lists match_trace with the geocoding tools
_execute_tool_misrouted(tool_name, tool_input, net) ==
    IF tool_name \in {"forward_geocode", "reverse_geocode", "poi_search", "match_trace"}
    THEN [handlers |-> <<"geocoding">>] @@ handle_geocoding_tool(tool_name, tool_input, net)
    ELSE IF tool_name \in {"route", "distance_matrix"}
    THEN [handlers |-> <<"routing">>] @@ handle_routing_tool(tool_name, tool_input, net)
    ELSE IF tool_name \in {"list_tile_providers", "get_tile_provider_info",
                           "get_tile_attribution"}
    THEN [handlers |-> <<"tiles">>] @@ handle_tiles_tool(tool_name, tool_input, net)
    ELSE [handlers |-> <<>>] @@
         Ret([status |-> "error", message |-> <<"Unknown tool: ", tool_name>>], <<>>)

\* a dispatcher that leaves every other name to the tiles handler
_execute_tool_else_tiles(tool_name, tool_input, net) ==
    IF tool_name \in {"forward_geocode", "reverse_geocode", "poi_search"}
    THEN [handlers |-> <<"geocoding">>] @@ handle_geocoding_tool(tool_name, tool_input, net)
    ELSE IF tool_name \in {"route", "distance_matrix", "match_trace"}
    THEN [handlers |-> <<"routing">>] @@ handle_routing_tool(tool_name, tool_input, net)
    ELSE [handlers |-> <<"tiles">>] @@ handle_tiles_tool(tool_name, tool_input, net)

\* MapAgentOrchestrator._execute_tool; `handlers` lists the backend handlers called
_execute_tool(tool_name, tool_input, net) ==
    IF tool_name \in {"forward_geocode", "reverse_geocode", "poi_search"}
    THEN [handlers |-> <<"geocoding">>] @@ handle_geocoding_tool(tool_name, tool_input, net)
    ELSE IF tool_name \in {"route", "distance_matrix", "match_trace"}
    THEN [handlers |-> <<"routing">>] @@ handle_routing_tool(tool_name, tool_input, net)
    ELSE IF tool_name \in {"list_tile_providers", "get_tile_provider_info",
                           "get_tile_attribution"}
    THEN [handlers |-> <<"tiles">>] @@ handle_tiles_tool(tool_name, tool_input, net)
    ELSE [handlers |-> <<>>] @@
         Ret([status |-> "error", message |-> <<"Unknown tool: ", tool_name>>], <<>>)

\* json.loads on the argument texts the completion service is modelled to send;
\* any other text (truncated, empty) raises JSONDecodeError
json_loads(text) ==
    CASE text = "{}" -> [ok |-> TRUE, value |-> EmptyDict]
      [] text = "[]" -> [ok |-> TRUE, value |-> PyList(<<>>)]
      [] text = "{\"start_latitude\":1,\"start_longitude\":2,\"end_latitude\":3,\"end_longitude\":4}" ->
            [ok |-> TRUE, value |-> PyDict([start_latitude |-> 1, start_longitude |-> 2,
                                            end_latitude |-> 3, end_longitude |-> 4])]
      [] text = "{\"provider_id\":\"openstreetmap\"}" ->
            [ok |-> TRUE, value |-> PyDict([provider_id |-> "openstreetmap"])]
      [] text = "{\"provider_id\":\"mapbox\"}" ->
            [ok |-> TRUE, value |-> PyDict([provider_id |-> "mapbox"])]
      [] text = "{\"sources\":[[1,2]],\"destinations\":[[3,4]]}" ->
            [ok |-> TRUE, value |-> PyDict([sources |-> << <<1, 2>> >>,
                                            destinations |-> << <<3, 4>> >>])]
      [] text = "{\"sources\":[[1,2],[5,6]],\"destinations\":[[3,4]]}" ->
            [ok |-> TRUE, value |-> PyDict([sources |-> << <<1, 2>>, <<5, 6>> >>,
                                            destinations |-> << <<3, 4>> >>])]
      [] text = "{\"sources\":[],\"destinations\":[[3,4]]}" ->
            [ok |-> TRUE, value |-> PyDict([sources |-> <<>>,
                                            destinations |-> << <<3, 4>> >>])]
      [] text = "{\"sources\":[[1]],\"destinations\":[[3,4]]}" ->
            [ok |-> TRUE, value |-> PyDict([sources |-> << <<1>> >>,
                                            destinations |-> << <<3, 4>> >>])]
      [] text = "{\"coordinates\":[[1,2],[3,4]]}" ->
            [ok |-> TRUE, value |-> PyDict([coordinates |-> << <<1, 2>>, <<3, 4>> >>])]
      [] text = "{\"coordinates\":[[1,2]]}" ->
            [ok |-> TRUE, value |-> PyDict([coordinates |-> << <<1, 2>> >>])]
      [] text = "{\"query\":\"Paris\"}" ->
            [ok |-> TRUE, value |-> PyDict([query |-> "Paris"])]
      [] text = "{\"latitude\":1,\"longitude\":2}" ->
            [ok |-> TRUE, value |-> PyDict([latitude |-> 1, longitude |-> 2])]
      [] text = "{\"query\":\"cafe\",\"latitude\":1,\"longitude\":2,\"radius\":200}" ->
            [ok |-> TRUE, value |-> PyDict([query |-> "cafe", latitude |-> 1,
                                            longitude |-> 2, radius |-> 200])]
      [] OTHER -> [ok |-> FALSE, value |-> EmptyDict]

\* json.dumps(tool_result, cls=_DateTimeEncoder): the result as text
json_dumps(v) == <<"json", v>>

-----------------------------------------------------------------------------
(* src/agents/orchestrator.py: process_query *)

PRUNE_THRESHOLD == 14

system_prompt == "You are a helpful map assistant"

TIMEOUT_MESSAGE == "Request timed out. The API took too long to respond. Please try again."

SystemTurn == [role |-> "system", content |-> system_prompt]
UserTurn(m) == [role |-> "user", content |-> m]

\* an assistant message that numbers the tool calls itself
AssistantTurn_renumbered(tcs) ==
    [role |-> "assistant", content |-> None,
     tool_calls |-> [i \in DOMAIN tcs |->
                        [id |-> i, type |-> "function",
                         function |-> [name |-> tcs[i].name,
                                       arguments |-> tcs[i].arguments]]]]

\* the assistant message that replays the tool calls of a response
AssistantTurn(tcs) ==
    [role |-> "assistant", content |-> None,
     tool_calls |-> [i \in DOMAIN tcs |->
                        [id |-> tcs[i].id, type |-> "function",
                         function |-> [name |-> tcs[i].name,
                                       arguments |-> tcs[i].arguments]]]]

ToolTurn(id, result) ==
    [role |-> "tool", tool_call_id |-> id, content |-> json_dumps(result)]

\* a pruning that keeps the first three turns
_prune_message_history_keep3(msgs) ==
    IF Len(msgs) <= 2 THEN msgs ELSE SubSeq(msgs, 1, 3)

\* a pruning that keeps the first two turns and a window of the last six
_prune_message_history_window(msgs) ==
    IF Len(msgs) <= 8 THEN msgs
    ELSE SubSeq(msgs, 1, 2) \o SubSeq(msgs, Len(msgs) - 5, Len(msgs))

\* a pruning that drops the last turn
_prune_message_history_drop_last(msgs) ==
    IF Len(msgs) <= 2 THEN msgs ELSE SubSeq(msgs, 1, Len(msgs) - 1)

\* MapAgentOrchestrator._prune_message_history
_prune_message_history(msgs) ==
    IF Len(msgs) <= 2 THEN msgs ELSE SubSeq(msgs, 1, 2)

\* a pruning test that lets two more turns through
needs_prune_late(msgs) == Len(msgs) > PRUNE_THRESHOLD + 2

\* a threshold that is reached one turn earlier
needs_prune_ge(msgs) == Len(msgs) >= PRUNE_THRESHOLD

\* if len(messages) > 14
needs_prune(msgs) == Len(msgs) > PRUNE_THRESHOLD

\* a resubmission of the transcript as it is
collapse_keeps_all(msgs) == msgs

\* a collapse that keeps the system message only
collapse_first_only(msgs) == SubSeq(msgs, 1, 1)

\* messages = messages[:2], on a context overflow
collapse(msgs) == SubSeq(msgs, 1, IF Len(msgs) < 2 THEN Len(msgs) ELSE 2)

\* a handler that takes every exception for a context overflow
is_any_exception(e) == TRUE

\* "context_length_exceeded" in str(e)
is_context_overflow(e) == e = "context_length_exceeded"

\* str(content) in place of `content or ""`
content_or_str(r) == IF r.content = None THEN "None" ELSE r.content[1]

\* response.choices[0].message.content or ""
content_or_empty(r) == IF r.content = None THEN "" ELSE r.content[1]

-----------------------------------------------------------------------------
(* Bounds and the environment's choices *)

MaxAnswered == 2     \* loop iterations whose submission outcome is explored
MaxRounds == 3       \* the same, when the completion service is a fixed function
MaxReq == 12         \* tool calls in one response

UserTexts == {"route from A to B", "tiles?"}

\* exceptions the completion-service call can raise besides TimeoutError
Exceptions == {"context_length_exceeded", "RateLimitError"}

\* the (name, arguments) pairs the completion service requests in the loop
ReqRoute    == [name |-> "route",
                arguments |-> "{\"start_latitude\":1,\"start_longitude\":2,\"end_latitude\":3,\"end_longitude\":4}"]
ReqNotFound == [name |-> "get_tile_provider_info", arguments |-> "{\"provider_id\":\"mapbox\"}"]
ReqUnknown  == [name |-> "lookup_weather", arguments |-> "{}"]
ReqList     == [name |-> "list_tile_providers", arguments |-> "{}"]
ReqBadJson  == [name |-> "list_tile_providers", arguments |-> "{\"provider_id\":"]

ReqKinds == {ReqRoute, ReqNotFound, ReqUnknown, ReqList, ReqBadJson}

\* request lists: one request of any kind, alone or followed by a route
\* request, and the two longest lists, which alternate a succeeding and a
\* failing request
ReqLists ==
    {<<a>> : a \in ReqKinds} \cup {<<a, ReqRoute>> : a \in ReqKinds}
    \cup {[i \in 1..k |-> IF i % 2 = 1 THEN ReqList ELSE ReqNotFound] :
            k \in (MaxReq - 1)..MaxReq}

\* the tool calls of the n-th submission's response: ids are fresh
ToolCalls(reqs, n) ==
    [i \in DOMAIN reqs |-> [id |-> 100 * n + i, name |-> reqs[i].name,
                            arguments |-> reqs[i].arguments]]

\* the responses to the n-th submission
Responses(n) ==
    {[finish_reason |-> f, content |-> c, tool_calls |-> <<>>] :
        f \in {"stop", "length"}, c \in {None, Some("answer")}}
    \cup {[finish_reason |-> "tool_calls", content |-> None,
           tool_calls |-> ToolCalls(reqs, n)] : reqs \in ReqLists}

\* what a remote service does to a request made from the loop
LoopOutcomes == {"ok", "timeout", "bad_body"}

\* outbound requests a tool can make: poi_search tries len(search_radii) radii
RemoteCalls(tool_name) ==
    IF tool_name = "poi_search" THEN Len(search_radii(0))
    ELSE IF tool_name \in Range(get_geocoding_tools) \cup Range(get_routing_tools) THEN 1
    ELSE 0

Nets(tool_name) == [1..RemoteCalls(tool_name) -> Outcomes]
LoopNets(tool_name) == [1..RemoteCalls(tool_name) -> LoopOutcomes]

-----------------------------------------------------------------------------
(* The state machine of one process_query call *)

\* no fixed completion service: every submission can have any outcome
NoService == [on_start |-> "", on_success |-> "", on_error |-> "", tools |-> ""]

\* the bound on answered iterations
Rounds == IF service = NoService THEN MaxAnswered ELSE MaxRounds

NoResponse == [finish_reason |-> "", content |-> None, tool_calls |-> <<>>]

\* one entry of `responses`: what a submission (retry = FALSE) or the
\* resubmission after a context overflow (retry = TRUE) produced
Outcome(kind, e, r) ==
    [kind |-> kind, exc |-> e, response |-> r, retry |-> (pc = "awaiting_retry")]

Init ==
    /\ pc = "idle"
    /\ user_message = ""
    /\ messages = <<>>
    /\ tool_calls_made = <<>>
    /\ iteration_count = 0
    /\ tool_calls = <<>>
    /\ idx = 0
    /\ returned = None
    /\ fault = ""
    /\ submissions = <<>>
    /\ responses = <<>>
    /\ dispatched = <<>>
    /\ handled = <<>>
    /\ calls = <<>>
    /\ tools = _build_tools
    /\ service = NoService

\* process_query(user_message) is called: lines 81-88
Start(m) ==
    /\ pc = "idle"
    /\ user_message' = m
    /\ messages' = <<SystemTurn, UserTurn(m)>>
    /\ tool_calls_made' = <<>>
    /\ iteration_count' = 0
    /\ pc' = "loop"
    /\ UNCHANGED <<tool_calls, idx, returned, fault, submissions, responses,
                   dispatched, handled, calls, tools, service>>

\* top of the while loop: prune, then submit under wait_for (lines 90-110)
Submit ==
    /\ pc = "loop"
    /\ iteration_count' = iteration_count + 1
    /\ messages' = IF needs_prune(messages)
                   THEN _prune_message_history(messages) ELSE messages
    /\ submissions' = Append(submissions, messages')
    /\ pc' = "awaiting"
    /\ UNCHANGED <<user_message, tool_calls_made, tool_calls, idx, returned, fault,
                   responses, dispatched, handled, calls, tools, service>>

\* a timeout handler that returns an empty record list
ModelTimeout_drops_records ==
    /\ pc \in {"awaiting", "awaiting_retry"}
    /\ iteration_count <= Rounds
    /\ returned' = Some([text |-> TIMEOUT_MESSAGE, records |-> <<>>])
    /\ responses' = Append(responses, Outcome("timeout", "TimeoutError", NoResponse))
    /\ pc' = "returned"
    /\ UNCHANGED <<user_message, messages, tool_calls_made, iteration_count, tool_calls,
                   idx, fault, submissions, dispatched, handled, calls, tools, service>>

\* except TimeoutError, of the submission or of the resubmission (lines 111-112, 128-129)
ModelTimeout ==
    /\ pc \in {"awaiting", "awaiting_retry"}
    /\ iteration_count <= Rounds
    /\ returned' = Some([text |-> TIMEOUT_MESSAGE, records |-> tool_calls_made])
    /\ responses' = Append(responses, Outcome("timeout", "TimeoutError", NoResponse))
    /\ pc' = "returned"
    /\ UNCHANGED <<user_message, messages, tool_calls_made, iteration_count, tool_calls,
                   idx, fault, submissions, dispatched, handled, calls, tools, service>>

\* except Exception as e, of the submission (lines 113-131)
ModelRaises(e) ==
    /\ pc = "awaiting"
    /\ iteration_count <= Rounds
    /\ responses' = Append(responses, Outcome("raised", e, NoResponse))
    /\ IF is_context_overflow(e)
       THEN /\ messages' = collapse(messages)
            /\ submissions' = Append(submissions, messages')
            /\ pc' = "awaiting_retry"
            /\ UNCHANGED fault
       ELSE /\ fault' = e
            /\ pc' = "raised"
            /\ UNCHANGED <<messages, submissions>>
    /\ UNCHANGED <<user_message, tool_calls_made, iteration_count, tool_calls, idx,
                   returned, dispatched, handled, calls, tools, service>>

\* an exception of the resubmission other than TimeoutError: nothing catches it
RetryRaises(e) ==
    /\ pc = "awaiting_retry"
    /\ iteration_count <= Rounds
    /\ responses' = Append(responses, Outcome("raised", e, NoResponse))
    /\ fault' = e
    /\ pc' = "raised"
    /\ UNCHANGED <<user_message, messages, tool_calls_made, iteration_count, tool_calls,
                   idx, returned, submissions, dispatched, handled, calls, tools, service>>

\* a loop that submits again after a response with neither stop nor tool calls
ModelResponds_loops_on_empty(r) ==
    /\ pc \in {"awaiting", "awaiting_retry"}
    /\ iteration_count <= Rounds
    /\ responses' = Append(responses, Outcome("response", "", r))
    /\ IF r.finish_reason = "stop"
       THEN /\ returned' = Some([text |-> content_or_empty(r), records |-> tool_calls_made])
            /\ pc' = "returned"
            /\ UNCHANGED <<messages, tool_calls, idx>>
       ELSE IF r.tool_calls # <<>>
       THEN /\ messages' = Append(messages, AssistantTurn(r.tool_calls))
            /\ tool_calls' = r.tool_calls
            /\ idx' = 1
            /\ pc' = "dispatching"
            /\ UNCHANGED returned
       ELSE /\ pc' = "loop"
            /\ UNCHANGED <<messages, tool_calls, idx, returned>>
    /\ UNCHANGED <<user_message, tool_calls_made, iteration_count, fault, submissions,
                   dispatched, handled, calls, tools, service>>

\* the submission or the resubmission returns a response (lines 133-160, 183-186)
ModelResponds(r) ==
    /\ pc \in {"awaiting", "awaiting_retry"}
    /\ iteration_count <= Rounds
    /\ responses' = Append(responses, Outcome("response", "", r))
    /\ IF r.finish_reason = "stop"
       THEN /\ returned' = Some([text |-> content_or_empty(r), records |-> tool_calls_made])
            /\ pc' = "returned"
            /\ UNCHANGED <<messages, tool_calls, idx>>
       ELSE IF r.tool_calls # <<>>
       THEN /\ messages' = Append(messages, AssistantTurn(r.tool_calls))
            /\ tool_calls' = r.tool_calls
            /\ idx' = 1
            /\ pc' = "dispatching"
            /\ UNCHANGED returned
       ELSE /\ returned' = Some([text |-> content_or_empty(r), records |-> tool_calls_made])
            /\ pc' = "returned"
            /\ UNCHANGED <<messages, tool_calls, idx>>
    /\ UNCHANGED <<user_message, tool_calls_made, iteration_count, fault, submissions,
                   dispatched, handled, calls, tools, service>>

\* one entry of `dispatched`; net: the outcomes of the requests it made
Invocation(tool_name, tool_input, net, r) ==
    [tool |-> tool_name, input |-> tool_input,
     net |-> SubSeq(net, 1, Len(r.requests)), handlers |-> r.handlers,
     requests |-> r.requests, raised |-> r.raised, result |-> r.value]

\* a loop that keeps no record and no tool message of an error result
RecordResult_skips_errors(tool_call, tool_input, result) ==
    /\ tool_calls_made' = IF result.status = "error" THEN tool_calls_made
                          ELSE Append(tool_calls_made,
                                      [tool |-> tool_call.name, input |-> tool_input,
                                       result |-> result])
    /\ messages' = IF result.status = "error" THEN messages
                   ELSE Append(messages, ToolTurn(tool_call.id, result))
    /\ idx' = idx + 1
    /\ pc' = IF idx = Len(tool_calls) THEN "loop" ELSE "dispatching"
    /\ UNCHANGED fault

\* a loop that tags every tool message with the id of the first tool call
RecordResult_first_id(tool_call, tool_input, result) ==
    /\ tool_calls_made' = Append(tool_calls_made,
                                 [tool |-> tool_call.name, input |-> tool_input,
                                  result |-> result])
    /\ messages' = Append(messages, ToolTurn(tool_calls[1].id, result))
    /\ idx' = idx + 1
    /\ pc' = IF idx = Len(tool_calls) THEN "loop" ELSE "dispatching"
    /\ UNCHANGED fault

\* a loop that puts the newest record first
RecordResult_prepends(tool_call, tool_input, result) ==
    /\ tool_calls_made' = <<[tool |-> tool_call.name, input |-> tool_input,
                             result |-> result]>> \o tool_calls_made
    /\ messages' = Append(messages, ToolTurn(tool_call.id, result))
    /\ idx' = idx + 1
    /\ pc' = IF idx = Len(tool_calls) THEN "loop" ELSE "dispatching"
    /\ UNCHANGED fault

\* the tool returned: record it, add its tool message, go on (lines 170-181)
RecordResult(tool_call, tool_input, result) ==
    /\ tool_calls_made' = Append(tool_calls_made,
                                 [tool |-> tool_call.name, input |-> tool_input,
                                  result |-> result])
    /\ messages' = Append(messages, ToolTurn(tool_call.id, result))
    /\ idx' = idx + 1
    /\ pc' = IF idx = Len(tool_calls) THEN "loop" ELSE "dispatching"
    /\ UNCHANGED fault

\* one pass of the for loop over tool_calls (lines 163-181)
Dispatch(net) ==
    /\ pc = "dispatching"
    /\ LET tool_call == tool_calls[idx]
           tool_name == tool_call.name
           parsed == json_loads(tool_call.arguments)
           r == _execute_tool(tool_name, parsed.value, net)
       IN  IF ~parsed.ok
           THEN /\ fault' = "JSONDecodeError"
                /\ pc' = "raised"
                /\ UNCHANGED <<messages, tool_calls_made, idx, dispatched>>
           ELSE /\ dispatched' = Append(dispatched, Invocation(tool_name, parsed.value, net, r))
                /\ IF r.raised
                   THEN /\ fault' = r.exc
                        /\ pc' = "raised"
                        /\ UNCHANGED <<messages, tool_calls_made, idx>>
                   ELSE RecordResult(tool_call, parsed.value, r.value)
    /\ UNCHANGED <<user_message, iteration_count, tool_calls, returned, submissions,
                   responses, handled, calls, tools, service>>

Next ==
    \/ \E m \in UserTexts : Start(m)
    \/ Submit
    \/ ModelTimeout
    \/ \E e \in Exceptions : ModelRaises(e)
    \/ \E e \in Exceptions : RetryRaises(e)
    \/ \E r \in Responses(Len(submissions)) : ModelResponds(r)
    \/ \E net \in LoopNets(IF pc = "dispatching" THEN tool_calls[idx].name ELSE "") :
          Dispatch(net)

Spec == Init /\ [][Next]_vars

-----------------------------------------------------------------------------
(* The dispatcher on its own: _execute_tool applied to every tool name and  *)
(* every argument value, against every behaviour of the remote services     *)

ToolNames == Range(_build_tools) \cup {"lookup_weather", "Route", ""}

ArgTexts ==
    {"{}", "[]",
     "{\"start_latitude\":1,\"start_longitude\":2,\"end_latitude\":3,\"end_longitude\":4}",
     "{\"provider_id\":\"openstreetmap\"}", "{\"provider_id\":\"mapbox\"}",
     "{\"sources\":[[1,2]],\"destinations\":[[3,4]]}",
     "{\"sources\":[[1,2],[5,6]],\"destinations\":[[3,4]]}",
     "{\"sources\":[],\"destinations\":[[3,4]]}",
     "{\"sources\":[[1]],\"destinations\":[[3,4]]}",
     "{\"coordinates\":[[1,2],[3,4]]}", "{\"coordinates\":[[1,2]]}",
     "{\"query\":\"Paris\"}", "{\"latitude\":1,\"longitude\":2}",
     "{\"query\":\"cafe\",\"latitude\":1,\"longitude\":2,\"radius\":200}"}

\* await self._execute_tool(tool_name, tool_input)
ExecuteTool(tool_name, text, net) ==
    /\ dispatched = <<>> /\ handled = <<>>
    /\ json_loads(text).ok
    /\ dispatched' = <<Invocation(tool_name, json_loads(text).value, net,
                                  _execute_tool(tool_name, json_loads(text).value, net))>>
    /\ UNCHANGED <<pc, user_message, messages, tool_calls_made, iteration_count,
                   tool_calls, idx, returned, fault, submissions, responses, handled, calls, tools, service>>

Handlers == {"geocoding", "routing", "tiles"}

\* await handle_<backend>_tool(tool_name, tool_input), called directly
HandleTool(handler, tool_name, text, net) ==
    /\ dispatched = <<>> /\ handled = <<>>
    /\ json_loads(text).ok
    /\ LET tool_input == json_loads(text).value
           r == CASE handler = "geocoding" -> handle_geocoding_tool(tool_name, tool_input, net)
                  [] handler = "routing" -> handle_routing_tool(tool_name, tool_input, net)
                  [] handler = "tiles" -> handle_tiles_tool(tool_name, tool_input, net)
       IN  handled' = <<Invocation(tool_name, tool_input, net,
                                   [handlers |-> <<handler>>] @@ r)>>
    /\ UNCHANGED <<pc, user_message, messages, tool_calls_made, iteration_count,
                   tool_calls, idx, returned, fault, submissions, responses,
                   dispatched, calls, tools, service>>

NextTools ==
    \/ \E tool_name \in ToolNames, text \in ArgTexts :
          \E net \in Nets(tool_name) : ExecuteTool(tool_name, text, net)
    \/ \E handler \in Handlers, tool_name \in ToolNames, text \in ArgTexts :
          \E net \in Nets(tool_name) : HandleTool(handler, tool_name, text, net)

SpecTools == Init /\ [][NextTools]_vars

-----------------------------------------------------------------------------
(* Construction on its own: MapAgentOrchestrator.__init__ over provider    *)
(* catalogs other than the three of this repository                        *)

MaxCatalog == 2      \* tools in a provider catalog

CatalogNames == {"forward_geocode", "route", "list_tile_providers"}

\* a provider's catalog: up to MaxCatalog names, no name twice
ProviderCatalogs ==
    {c \in UNION {[1..n -> CatalogNames] : n \in 1..MaxCatalog} :
        \A i, j \in DOMAIN c : i # j => c[i] # c[j]}

InitBuild ==
    /\ pc = "constructing"
    /\ user_message = ""
    /\ messages = <<>>
    /\ tool_calls_made = <<>>
    /\ iteration_count = 0
    /\ tool_calls = <<>>
    /\ idx = 0
    /\ returned = None
    /\ fault = ""
    /\ submissions = <<>>
    /\ responses = <<>>
    /\ dispatched = <<>>
    /\ handled = <<>>
    /\ calls = <<>>
    /\ tools = <<>>
    /\ service = NoService

\* self.tools = self._build_tools(), the providers' catalogs being as given
Construct(geocoding, routing, tiles) ==
    /\ pc = "constructing"
    /\ tools' = _build_tools_of(geocoding, routing, tiles)
    /\ pc' = "idle"
    /\ UNCHANGED <<user_message, messages, tool_calls_made, iteration_count,
                   tool_calls, idx, returned, fault, submissions, responses,
                   dispatched, handled, calls, service>>

NextBuild ==
    \E geocoding, routing, tiles \in ProviderCatalogs :
        Construct(geocoding, routing, tiles)

SpecBuild == InitBuild /\ [][NextBuild]_vars

-----------------------------------------------------------------------------
(* Several process_query calls on one orchestrator.  Each call has its own  *)
(* locals; a call is suspended at `await create(...)` and at                *)
(* `await self._execute_tool(...)`, where another call may run.             *)

MaxCalls == 2        \* process_query calls on the instance

CallIds == 1..MaxCalls

\* the locals of a call that has not started
NoCall ==
    [pc |-> "idle", user_message |-> "", messages |-> <<>>, tool_calls_made |-> <<>>,
     iteration_count |-> 0, tool_calls |-> <<>>, idx |-> 0, returned |-> None,
     fault |-> "", submissions |-> <<>>, dispatched |-> <<>>]

\* the responses to the n-th submission of call c: ids are fresh
CallResponses(c, n) ==
    {[finish_reason |-> "stop", content |-> Some("answer"), tool_calls |-> <<>>],
     [finish_reason |-> "tool_calls", content |-> None,
      tool_calls |-> ToolCalls(<<ReqList, ReqNotFound>>, 10 * c + n)]}

InitCalls ==
    /\ pc = "idle"
    /\ user_message = ""
    /\ messages = <<>>
    /\ tool_calls_made = <<>>
    /\ iteration_count = 0
    /\ tool_calls = <<>>
    /\ idx = 0
    /\ returned = None
    /\ fault = ""
    /\ submissions = <<>>
    /\ responses = <<>>
    /\ dispatched = <<>>
    /\ handled = <<>>
    /\ calls = [c \in CallIds |-> NoCall]
    /\ tools = _build_tools
    /\ service = NoService

\* submissions made so far by the calls 1..c together
RECURSIVE IterationsUpTo(_)
IterationsUpTo(c) ==
    IF c = 0 THEN 0 ELSE calls[c].iteration_count + IterationsUpTo(c - 1)

\* the outcome of a submission is explored while the calls together have
\* made at most MaxAnswered + 1 submissions
Explored == IterationsUpTo(MaxCalls) <= MaxAnswered + 1

\* what a step of the calls leaves alone
OnlyCalls ==
    UNCHANGED <<pc, user_message, messages, tool_calls_made, iteration_count,
                tool_calls, idx, returned, fault, submissions, responses,
                dispatched, handled, tools, service>>

\* a call that starts with what the calls before it left behind
CallStart_shared(c, m) ==
    /\ calls[c].pc = "idle"
    /\ LET others == {o \in CallIds : calls[o].pc # "idle"}
           left == IF others = {} THEN NoCall ELSE calls[CHOOSE o \in others : TRUE]
       IN  calls' = [calls EXCEPT ![c] =
                [@ EXCEPT !.pc = "loop", !.user_message = m,
                          !.messages = <<SystemTurn, UserTurn(m)>>,
                          !.tool_calls_made = left.tool_calls_made,
                          !.iteration_count = 0]]
    /\ OnlyCalls

\* process_query(user_message) is called: lines 81-88
CallStart(c, m) ==
    /\ calls[c].pc = "idle"
    /\ calls' = [calls EXCEPT ![c] =
            [@ EXCEPT !.pc = "loop", !.user_message = m,
                      !.messages = <<SystemTurn, UserTurn(m)>>,
                      !.tool_calls_made = <<>>, !.iteration_count = 0]]
    /\ OnlyCalls

\* top of the while loop: prune, then submit under wait_for (lines 90-110)
CallSubmit(c) ==
    /\ calls[c].pc = "loop"
    /\ LET msgs == IF needs_prune(calls[c].messages)
                   THEN _prune_message_history(calls[c].messages)
                   ELSE calls[c].messages
       IN  calls' = [calls EXCEPT ![c] =
                [@ EXCEPT !.pc = "awaiting", !.iteration_count = @ + 1,
                          !.messages = msgs,
                          !.submissions = Append(@, msgs)]]
    /\ OnlyCalls

\* except TimeoutError (lines 111-112, 128-129)
CallTimeout(c) ==
    /\ calls[c].pc \in {"awaiting", "awaiting_retry"}
    /\ Explored
    /\ calls' = [calls EXCEPT ![c] =
            [@ EXCEPT !.pc = "returned",
                      !.returned = Some([text |-> TIMEOUT_MESSAGE,
                                         records |-> calls[c].tool_calls_made])]]
    /\ OnlyCalls

\* except Exception as e (lines 113-131), of the submission or the resubmission
CallRaises(c, e) ==
    /\ calls[c].pc \in {"awaiting", "awaiting_retry"}
    /\ Explored
    /\ calls' = [calls EXCEPT ![c] =
            IF calls[c].pc = "awaiting" /\ is_context_overflow(e)
            THEN [@ EXCEPT !.pc = "awaiting_retry",
                           !.messages = collapse(calls[c].messages),
                           !.submissions = Append(@, collapse(calls[c].messages))]
            ELSE [@ EXCEPT !.pc = "raised", !.fault = e]]
    /\ OnlyCalls

\* the submission returns a response (lines 133-160, 183-186)
CallResponds(c, r) ==
    /\ calls[c].pc \in {"awaiting", "awaiting_retry"}
    /\ Explored
    /\ calls' = [calls EXCEPT ![c] =
            IF r.finish_reason = "stop" \/ r.tool_calls = <<>>
            THEN [@ EXCEPT !.pc = "returned",
                           !.returned = Some([text |-> content_or_empty(r),
                                              records |-> calls[c].tool_calls_made])]
            ELSE [@ EXCEPT !.pc = "dispatching",
                           !.messages = Append(@, AssistantTurn(r.tool_calls)),
                           !.tool_calls = r.tool_calls, !.idx = 1]]
    /\ OnlyCalls

\* one pass of the for loop over tool_calls (lines 163-181)
CallDispatch(c, net) ==
    /\ calls[c].pc = "dispatching"
    /\ LET tool_call == calls[c].tool_calls[calls[c].idx]
           parsed == json_loads(tool_call.arguments)
           r == _execute_tool(tool_call.name, parsed.value, net)
       IN  calls' = [calls EXCEPT ![c] =
                IF ~parsed.ok
                THEN [@ EXCEPT !.pc = "raised", !.fault = "JSONDecodeError"]
                ELSE IF r.raised
                THEN [@ EXCEPT !.pc = "raised", !.fault = r.exc,
                               !.dispatched = Append(@, Invocation(tool_call.name,
                                                          parsed.value, net, r))]
                ELSE [@ EXCEPT !.pc = IF calls[c].idx = Len(calls[c].tool_calls)
                                      THEN "loop" ELSE "dispatching",
                               !.idx = @ + 1,
                               !.tool_calls_made =
                                    Append(@, [tool |-> tool_call.name,
                                               input |-> parsed.value,
                                               result |-> r.value]),
                               !.messages = Append(@, ToolTurn(tool_call.id, r.value)),
                               !.dispatched = Append(@, Invocation(tool_call.name,
                                                          parsed.value, net, r))]]
    /\ OnlyCalls

NextCalls ==
    \E c \in CallIds :
        \/ \E m \in UserTexts : CallStart(c, m)
        \/ CallSubmit(c)
        \/ CallTimeout(c)
        \/ \E e \in Exceptions : CallRaises(c, e)
        \/ \E r \in CallResponses(c, Len(calls[c].submissions)) : CallResponds(c, r)
        \/ \E net \in LoopNets(IF calls[c].pc = "dispatching"
                                THEN calls[c].tool_calls[calls[c].idx].name ELSE "") :
              CallDispatch(c, net)

SpecCalls == InitCalls /\ [][NextCalls]_vars

-----------------------------------------------------------------------------
(* Properties of process_query (specification Spec) *)

Last(s) == s[Len(s)]

\* the step records the outcome of a submission or resubmission
Answered == responses' # responses
NewOutcome == Last(responses')

HasToolCalls(o) == o.kind = "response" /\ o.response.tool_calls # <<>>

\* the text a response is returned with: its content, "" when it has none
ExpectedText(r) == IF r.content = <<>> THEN "" ELSE r.content[1]

\* the turns that k tool calls tcs add to a transcript: one assistant turn
\* carrying them, then one tool turn per call, in order
IsBlockOf(turns, tcs) ==
    /\ Len(turns) = 1 + Len(tcs)
    /\ turns[1].role = "assistant"
    /\ Len(turns[1].tool_calls) = Len(tcs)
    /\ \A i \in DOMAIN tcs :
          /\ turns[1].tool_calls[i].id = tcs[i].id
          /\ turns[1].tool_calls[i].function.name = tcs[i].name
          /\ turns[1].tool_calls[i].function.arguments = tcs[i].arguments
          /\ turns[1 + i].role = "tool"
          /\ turns[1 + i].tool_call_id = tcs[i].id

\* C1: when the first submission is answered with k tool calls, 1 <= k <= 11,
\* the transcript passed to the second submission has exactly 3 + k turns
\* (system, user, one assistant turn with the k calls, k tool turns in call
\* order), and when the second submission is answered with finish=stop,
\* process_query returns exactly k records, one per call in call order.
Thm_C1 ==
    (/\ Len(responses) >= 1
     /\ HasToolCalls(responses[1])
     /\ Len(responses[1].response.tool_calls) <= 11)
    => LET tcs == responses[1].response.tool_calls
           k == Len(tcs)
       IN  /\ Len(submissions) >= 2 =>
              /\ Len(submissions[2]) = 3 + k
              /\ submissions[2][1] = SystemTurn
              /\ submissions[2][2] = UserTurn(user_message)
              /\ IsBlockOf(SubSeq(submissions[2], 3, 3 + k), tcs)
           /\ (Len(responses) = 2 /\ responses[2].kind = "response"
               /\ responses[2].response.finish_reason = "stop") =>
              /\ pc = "returned"
              /\ Len(returned[1].records) = k
              /\ \A i \in 1..k :
                    /\ returned[1].records[i].tool = tcs[i].name
                    /\ returned[1].records[i].input = json_loads(tcs[i].arguments).value
                    /\ submissions[2][3 + i].content =
                          <<"json", returned[1].records[i].result>>

\* eleven tool calls, then finish=stop: 14 turns reach the second submission
Wit_C1 ==
    /\ pc = "returned"
    /\ Len(responses) = 2
    /\ HasToolCalls(responses[1])
    /\ Len(responses[1].response.tool_calls) = 11
    /\ responses[2].response.finish_reason = "stop"
    /\ Len(submissions[2]) = 14

\* C2: a response that carries no tool calls ends the query at once: the call
\* returns the response text ("" when there is none) with the records made so
\* far; no tool is dispatched, nothing more is submitted, and nothing happens
\* after the return.
Step_C2 ==
    /\ pc # "returned"
    /\ (Answered /\ NewOutcome.kind = "response" /\ NewOutcome.response.tool_calls = <<>>)
       => /\ pc' = "returned"
          /\ returned' = <<[text |-> ExpectedText(NewOutcome.response),
                            records |-> tool_calls_made]>>
          /\ tool_calls_made' = tool_calls_made
          /\ dispatched' = dispatched
          /\ submissions' = submissions
          /\ fault' = ""

Thm_C2 == [][Step_C2]_vars

\* finish=stop on the first submission, and an empty response after tool calls
Wit_C2 ==
    /\ pc = "returned"
    /\ Len(responses) = 2
    /\ HasToolCalls(responses[1])
    /\ responses[2].kind = "response"
    /\ responses[2].response.finish_reason = "length"
    /\ responses[2].response.content = <<>>
    /\ returned[1].text = ""
    /\ Len(returned[1].records) = 2

\* C3: a submission or resubmission that times out, in any iteration, ends the
\* query: the call returns the fixed timeout message with the records made so
\* far; there is no resubmission and no further dispatch.
Step_C3 ==
    /\ pc # "returned"
    /\ (Answered /\ NewOutcome.kind = "timeout")
       => /\ pc' = "returned"
          /\ returned' = <<[text |-> "Request timed out. The API took too long to respond. Please try again.",
                            records |-> tool_calls_made]>>
          /\ tool_calls_made' = tool_calls_made
          /\ dispatched' = dispatched
          /\ submissions' = submissions
          /\ fault' = ""

Thm_C3 == [][Step_C3]_vars

\* a timeout in the second iteration, after two tool calls were recorded
Wit_C3 ==
    /\ pc = "returned"
    /\ Len(responses) = 2
    /\ responses[2].kind = "timeout"
    /\ Len(returned[1].records) = 2
    /\ returned[1].records = tool_calls_made

\* C4 (as claimed): when the submission and the resubmission both raise the
\* capacity-overflow condition, process_query returns the fixed timeout/failure
\* message together with the records made so far.
Cex_C4 ==
    (/\ Len(responses) >= 2
     /\ Last(responses).kind = "raised"
     /\ Last(responses).exc = "context_length_exceeded"
     /\ Last(responses).retry)
    => /\ pc = "returned"
       /\ returned = <<[text |-> TIMEOUT_MESSAGE, records |-> tool_calls_made]>>

\* C5: a context overflow of a submission collapses the transcript to its
\* first two turns and resubmits it, once; a timeout of the resubmission
\* returns the timeout message with the records made so far; a response to
\* the resubmission is interpreted as any response is, and the loop goes on
\* from the collapsed transcript.
Step_C5 ==
    /\ (pc = "awaiting" /\ Answered /\ NewOutcome.kind = "raised"
        /\ NewOutcome.exc = "context_length_exceeded")
       => /\ messages' = <<messages[1], messages[2]>>
          /\ submissions' = Append(submissions, <<messages[1], messages[2]>>)
          /\ pc' = "awaiting_retry"
          /\ tool_calls_made' = tool_calls_made
          /\ returned' = <<>> /\ fault' = ""
    /\ pc = "awaiting_retry"
       => /\ submissions' = submissions
          /\ Len(messages) = 2
          /\ pc' # "awaiting_retry"
          /\ NewOutcome.kind = "timeout"
             => /\ pc' = "returned"
                /\ returned' = <<[text |-> TIMEOUT_MESSAGE, records |-> tool_calls_made]>>
          /\ (NewOutcome.kind = "response" /\ NewOutcome.response.tool_calls = <<>>)
             => /\ pc' = "returned"
                /\ returned' = <<[text |-> ExpectedText(NewOutcome.response),
                                  records |-> tool_calls_made]>>
          /\ HasToolCalls(NewOutcome)
             => /\ pc' = "dispatching"
                /\ Len(messages') = 3
                /\ SubSeq(messages', 1, 2) = messages
                /\ messages'[3].role = "assistant"
                /\ Len(messages'[3].tool_calls) = Len(NewOutcome.response.tool_calls)
                /\ tool_calls' = NewOutcome.response.tool_calls
                /\ idx' = 1
    /\ \A i \in DOMAIN responses :
          /\ (responses[i].kind = "raised" /\ ~responses[i].retry
              /\ responses[i].exc = "context_length_exceeded")
             => submissions[i + 1] = <<SystemTurn, UserTurn(user_message)>>
          /\ (responses[i].retry /\ HasToolCalls(responses[i])
              /\ i + 1 \in DOMAIN submissions)
             => LET k == Len(responses[i].response.tool_calls)
                IN  /\ Len(submissions[i + 1]) = IF 3 + k > 14 THEN 2 ELSE 3 + k
                    /\ SubSeq(submissions[i + 1], 1, 2) = submissions[i]

Thm_C5 == [][Step_C5]_vars

\* the second submission overflowed with a transcript of more than two turns,
\* the resubmission was answered with tool calls, and the third iteration
\* submitted the collapsed transcript extended by that block alone
Wit_C5 ==
    /\ pc = "awaiting"
    /\ iteration_count = 3
    /\ Len(responses) = 3
    /\ HasToolCalls(responses[1])
    /\ responses[2].kind = "raised" /\ ~responses[2].retry
    /\ HasToolCalls(responses[3]) /\ responses[3].retry
    /\ Len(submissions[2]) > 2
    /\ Len(submissions[3]) = 2
    /\ Len(submissions[4]) = 3 + Len(responses[3].response.tool_calls)

\* C6: an exception of a submission that is neither a timeout nor a context
\* overflow leaves process_query as that exception: nothing is resubmitted,
\* nothing is returned, no tool is dispatched, and nothing happens afterwards.
Step_C6 ==
    /\ pc # "raised"
    /\ (Answered /\ NewOutcome.kind = "raised" /\ NewOutcome.exc # "context_length_exceeded")
       => /\ pc' = "raised"
          /\ fault' = NewOutcome.exc
          /\ returned' = <<>>
          /\ submissions' = submissions
          /\ dispatched' = dispatched
          /\ tool_calls_made' = tool_calls_made

Thm_C6 == [][Step_C6]_vars

\* a rate-limit error on the second submission, after tool calls
Wit_C6 ==
    /\ pc = "raised"
    /\ fault = "RateLimitError"
    /\ Len(responses) = 2
    /\ HasToolCalls(responses[1])
    /\ ~responses[2].retry
    /\ returned = <<>>
    /\ Len(submissions) = 2

\* C10: a tool call whose result has status=error is recorded like any other:
\* its ToolCallRecord and its tool turn are appended, the for loop goes on to
\* the next tool call of the response, and after the last one the loop makes
\* another submission; the query neither returns nor faults on it.
Step_C10 ==
    /\ (pc = "dispatching" /\ dispatched' # dispatched
        /\ ~Last(dispatched').raised /\ Last(dispatched').result.status = "error")
       => /\ tool_calls_made' =
                Append(tool_calls_made,
                       [tool |-> tool_calls[idx].name,
                        input |-> json_loads(tool_calls[idx].arguments).value,
                        result |-> Last(dispatched').result])
          /\ messages' =
                Append(messages,
                       [role |-> "tool", tool_call_id |-> tool_calls[idx].id,
                        content |-> <<"json", Last(dispatched').result>>])
          /\ returned' = <<>> /\ fault' = ""
          /\ idx < Len(tool_calls) => (pc' = "dispatching" /\ idx' = idx + 1)
          /\ idx = Len(tool_calls) => pc' = "loop"
    /\ pc = "loop"
       => /\ pc' = "awaiting"
          /\ Len(submissions') = Len(submissions) + 1

\* every state in which the for loop has ended can submit again
Inv_C10 == pc = "loop" => ENABLED Submit

Thm_C10 == []Inv_C10 /\ [][Step_C10]_vars

\* an unknown tool and a backend timeout in one response, then a submission
Wit_C10 ==
    /\ pc = "awaiting"
    /\ iteration_count = 2
    /\ Len(tool_calls_made) = 2
    /\ tool_calls_made[1].tool = "lookup_weather"
    /\ tool_calls_made[1].result.status = "error"
    /\ tool_calls_made[2].tool = "route"
    /\ tool_calls_made[2].result.status = "error"
    /\ tool_calls_made[2].result.error_code = "TIMEOUT"
    /\ Len(submissions[2]) = 5

-----------------------------------------------------------------------------
(* Properties of the dispatcher (specification SpecTools) *)

Catalog(handler) ==
    CASE handler = "geocoding" -> get_geocoding_tools
      [] handler = "routing" -> get_routing_tools
      [] handler = "tiles" -> get_tiles_tools

IsUnknownToolError(result) ==
    /\ result.status = "error"
    /\ "message" \in DOMAIN result
    /\ result.message[1] = "Unknown tool: "

NineTools ==
    {"forward_geocode", "reverse_geocode", "poi_search", "route", "distance_matrix",
     "match_trace", "list_tile_providers", "get_tile_provider_info",
     "get_tile_attribution"}

\* C7: a call of one of the nine known tools is forwarded to exactly one
\* backend handler, the one whose catalog lists the name, and what comes back
\* is never an "Unknown tool" error.
Thm_C7 ==
    \A i \in DOMAIN dispatched :
       dispatched[i].tool \in NineTools
       => /\ Len(dispatched[i].handlers) = 1
          /\ dispatched[i].tool \in Range(Catalog(dispatched[i].handlers[1]))
          /\ ~dispatched[i].raised => ~IsUnknownToolError(dispatched[i].result)

Wit_C7 ==
    /\ Len(dispatched) = 1
    /\ dispatched[1].tool = "match_trace"
    /\ dispatched[1].handlers = <<"routing">>
    /\ ~dispatched[1].raised
    /\ dispatched[1].result.status = "success"

\* C8: a call of a name outside the three catalogs reaches no handler and
\* returns, without raising, status=error with a message that contains the
\* name, no data and no error_code.
Thm_C8 ==
    \A i \in DOMAIN dispatched :
       dispatched[i].tool \notin NineTools
       => /\ dispatched[i].handlers = <<>>
          /\ dispatched[i].requests = <<>>
          /\ ~dispatched[i].raised
          /\ dispatched[i].result.status = "error"
          /\ "message" \in DOMAIN dispatched[i].result
          /\ dispatched[i].tool \in Range(dispatched[i].result.message)
          /\ "data" \notin DOMAIN dispatched[i].result
          /\ "error_code" \notin DOMAIN dispatched[i].result

Wit_C8 ==
    /\ Len(dispatched) = 1
    /\ dispatched[1].tool = "Route"
    /\ dispatched[1].input.type = "list"
    /\ dispatched[1].result.status = "error"

\* C9: every result the dispatcher hands back has no data when its status is
\* error and no error_code when its status is success.
Thm_C9 ==
    \A d \in Range(dispatched) \cup Range(handled) :
       ~d.raised
       => /\ d.result.status \in {"success", "error"}
          /\ d.result.status = "error" => "data" \notin DOMAIN d.result
          /\ d.result.status = "success" => "error_code" \notin DOMAIN d.result

Wit_C9 ==
    /\ Len(dispatched) = 1
    /\ dispatched[1].tool = "distance_matrix"
    /\ ~dispatched[1].raised
    /\ dispatched[1].result.status = "error"
    /\ dispatched[1].result.error_code = "NO_ROUTE"
    /\ dispatched[1].requests # <<>>

-----------------------------------------------------------------------------
(* Failures at the tool boundary *)

\* C11 (as claimed): process_query ends with a propagated fault only when a
\* submission to the completion service raised; decoding, routing or executing
\* a tool call never ends it abnormally.
Cex_C11 ==
    pc = "raised" => (responses # <<>> /\ Last(responses).kind = "raised")

RemoteTools ==
    {"forward_geocode", "reverse_geocode", "poi_search", "route", "distance_matrix",
     "match_trace"}

\* every outbound request of the invocation timed out or had an HTTP error
Unreachable(d) ==
    /\ d.requests # <<>>
    /\ \A i \in DOMAIN d.requests : d.net[i] \in {"timeout", "http_error"}

\* C12 (as claimed): a remote tool whose every request times out or fails
\* with an HTTP error returns status=error with an error_code and a message.
Cex_C12 ==
    \A d \in Range(dispatched) :
       (d.tool \in RemoteTools /\ Unreachable(d))
       => /\ ~d.raised
          /\ d.result.status = "error"
          /\ "error_code" \in DOMAIN d.result
          /\ "message" \in DOMAIN d.result

\* the record process_query keeps of an invocation
RecordOf(d) == [tool |-> d.tool, input |-> d.input, result |-> d.result]

Inv_C13 ==
    /\ Len(tool_calls_made) <= Len(dispatched)
    /\ \A i \in DOMAIN tool_calls_made : tool_calls_made[i] = RecordOf(dispatched[i])
    /\ returned # None
       => /\ returned[1].records = tool_calls_made
          /\ Len(returned[1].records) = Len(dispatched)

Step_C13 ==
    \/ tool_calls_made' = tool_calls_made
    \/ /\ Len(tool_calls_made') = Len(tool_calls_made) + 1
       /\ SubSeq(tool_calls_made', 1, Len(tool_calls_made)) = tool_calls_made
       /\ dispatched' # dispatched

\* C13: the returned list holds one ToolCallRecord per dispatcher invocation
\* of the query, in invocation order, and during the query the list changes
\* only by an append at its end, also when the transcript is pruned or
\* collapsed.
Thm_C13 == []Inv_C13 /\ [][Step_C13]_vars

\* twelve records returned after the transcript was pruned to two turns
Wit_C13 ==
    /\ returned # None
    /\ Len(returned[1].records) = 12
    /\ Len(submissions) = 2
    /\ Len(submissions[2]) = 2
    /\ returned[1].records[2].tool = "get_tile_provider_info"

-----------------------------------------------------------------------------
(* The tool catalog *)

NoDuplicates(seq) == \A i, j \in DOMAIN seq : i # j => seq[i] # seq[j]

\* C14: self.tools is the geocoding, routing and tiles catalogs concatenated
\* in that order, three names each and nine distinct names in all, and a name
\* is routed to a backend handler exactly when the catalog lists it, to the
\* backend whose catalog lists it.
Thm_C14 ==
    /\ tools = get_geocoding_tools \o get_routing_tools \o get_tiles_tools
    /\ Len(get_geocoding_tools) = 3 /\ Len(get_routing_tools) = 3
    /\ Len(get_tiles_tools) = 3
    /\ Len(tools) = 9
    /\ NoDuplicates(tools)
    /\ \A d \in Range(dispatched) :
          /\ d.tool \in Range(tools) <=> d.handlers # <<>>
          /\ d.handlers # <<>>
             => /\ Len(d.handlers) = 1
                /\ d.tool \in Range(Catalog(d.handlers[1]))

Wit_C14 ==
    /\ tools[4] = "route"
    /\ tools[9] = "get_tile_attribution"
    /\ Len(dispatched) = 1
    /\ dispatched[1].tool = "get_tile_attribution"
    /\ dispatched[1].handlers = <<"tiles">>

-----------------------------------------------------------------------------
(* The routing and tiles handlers *)

\* every invocation of a backend handler, through the dispatcher or direct
Invocations == Range(dispatched) \cup Range(handled)

\* the invocation reached the named handler with a dict of well-formed pairs
WellFormed(d, handler) ==
    /\ d.handlers = <<handler>>
    /\ d.input.type = "dict"
    /\ pairs_ok(dict_get(d.input, "sources", <<>>))
    /\ pairs_ok(dict_get(d.input, "destinations", <<>>))
    /\ pairs_ok(dict_get(d.input, "coordinates", <<>>))

\* C16: distance_matrix with one source and one destination makes its request
\* on the route path, and a success then carries a distance and a duration;
\* with other numbers of sources and destinations every request is on the
\* table path.
Thm_C16 ==
    \A d \in Invocations :
       (d.tool = "distance_matrix" /\ WellFormed(d, "routing"))
       => LET src == dict_get(d.input, "sources", <<>>)
              dst == dict_get(d.input, "destinations", <<>>)
          IN  IF Len(src) = 1 /\ Len(dst) = 1
              THEN /\ Len(d.requests) = 1
                   /\ d.requests[1][1] = "/route/v1/"
                   /\ (~d.raised /\ d.result.status = "success")
                      => /\ "distance_meters" \in DOMAIN d.result.data
                         /\ "duration_seconds" \in DOMAIN d.result.data
              ELSE /\ \A i \in DOMAIN d.requests : d.requests[i][1] = "/table/v1/"
                   /\ (~d.raised /\ d.result.status = "success")
                      => /\ Len(d.requests) = 1
                         /\ "durations" \in DOMAIN d.result.data
                         /\ "distance_meters" \notin DOMAIN d.result.data

Wit_C16 ==
    /\ Len(dispatched) = 1
    /\ dispatched[1].tool = "distance_matrix"
    /\ Len(dict_get(dispatched[1].input, "sources", <<>>)) = 1
    /\ ~dispatched[1].raised
    /\ dispatched[1].result.status = "success"
    /\ dispatched[1].result.data.distance_meters = 1200

InvalidInput(d) ==
    /\ ~d.raised
    /\ d.result.status = "error"
    /\ "error_code" \in DOMAIN d.result
    /\ d.result.error_code = "INVALID_INPUT"
    /\ "data" \notin DOMAIN d.result
    /\ d.requests = <<>>

\* C17: distance_matrix with no source or no destination, and match_trace
\* with fewer than two coordinates, return INVALID_INPUT without data and
\* without a request to the routing service.
Thm_C17 ==
    \A d \in Invocations :
       WellFormed(d, "routing")
       => /\ (d.tool = "distance_matrix"
              /\ (dict_get(d.input, "sources", <<>>) = <<>>
                  \/ dict_get(d.input, "destinations", <<>>) = <<>>))
             => InvalidInput(d)
          /\ (d.tool = "match_trace"
              /\ Len(dict_get(d.input, "coordinates", <<>>)) < 2)
             => InvalidInput(d)

Wit_C17 ==
    /\ Len(handled) = 1
    /\ handled[1].tool = "match_trace"
    /\ handled[1].handlers = <<"routing">>
    /\ Len(dict_get(handled[1].input, "coordinates", <<>>)) = 1
    /\ handled[1].result.error_code = "INVALID_INPUT"

\* C18: get_tile_provider_info and get_tile_attribution succeed, with the
\* provider's fields and its id, respectively its attribution, exactly when
\* provider_id is a key of TILE_PROVIDERS; otherwise, also without a
\* provider_id, they return NOT_FOUND without data.
Thm_C18 ==
    \A d \in Invocations :
       (d.tool \in {"get_tile_provider_info", "get_tile_attribution"}
        /\ d.handlers = <<"tiles">> /\ d.input.type = "dict")
       => LET provider_id == dict_get(d.input, "provider_id", "")
          IN  /\ ~d.raised
              /\ d.requests = <<>>
              /\ IF provider_id \in DOMAIN TILE_PROVIDERS
                 THEN /\ d.result.status = "success"
                      /\ "error_code" \notin DOMAIN d.result
                      /\ IF d.tool = "get_tile_provider_info"
                         THEN /\ d.result.data.id = provider_id
                              /\ \A f \in DOMAIN TILE_PROVIDERS[provider_id] :
                                    d.result.data[f] = TILE_PROVIDERS[provider_id][f]
                         ELSE /\ d.result.data.attribution
                                    = TILE_PROVIDERS[provider_id].attribution
                              /\ d.result.data.provider_id = provider_id
                 ELSE /\ d.result.status = "error"
                      /\ d.result.error_code = "NOT_FOUND"
                      /\ "data" \notin DOMAIN d.result

Wit_C18 ==
    /\ Len(dispatched) = 1
    /\ dispatched[1].tool = "get_tile_attribution"
    /\ dispatched[1].input = EmptyDict
    /\ dispatched[1].result.error_code = "NOT_FOUND"

\* C19: a backend handler called with a name that is not in its catalog
\* returns, without raising and without a request, status=error with an
\* "Unknown tool" message, from the tiles handler with error_code
\* UNKNOWN_TOOL.
Thm_C19 ==
    \A d \in Range(handled) :
       d.tool \notin Range(Catalog(d.handlers[1]))
       => /\ ~d.raised
          /\ d.requests = <<>>
          /\ d.result.status = "error"
          /\ "message" \in DOMAIN d.result
          /\ d.result.message = <<"Unknown tool: ", d.tool>>
          /\ d.handlers = <<"tiles">>
             => ("error_code" \in DOMAIN d.result
                 /\ d.result.error_code = "UNKNOWN_TOOL")

Wit_C19 ==
    /\ Len(handled) = 1
    /\ handled[1].handlers = <<"geocoding">>
    /\ handled[1].tool = "route"
    /\ handled[1].input.type = "list"
    /\ handled[1].result.status = "error"

-----------------------------------------------------------------------------
(* Isolation of the calls (specification SpecCalls) *)

\* the turn was produced by call c: its tool call ids are of c's responses
OwnTurn(c, turn) ==
    CASE turn.role = "assistant" ->
            \A j \in DOMAIN turn.tool_calls : turn.tool_calls[j].id \div 1000 = c
      [] turn.role = "tool" -> turn.tool_call_id \div 1000 = c
      [] OTHER -> FALSE

\* a transcript of call c: [System, User(its text)], then turns of its own
OwnTranscript(c, t) ==
    /\ Len(t) >= 2
    /\ t[1] = SystemTurn
    /\ t[2] = UserTurn(calls[c].user_message)
    /\ \A k \in 3..Len(t) : OwnTurn(c, t[k])

\* C20: every call starts from [System, User(its text)] and no records; the
\* transcripts it submits and the records it returns hold nothing that another
\* call produced, whatever the interleaving; self.tools never changes.
Thm_C20 ==
    /\ tools = _build_tools
    /\ \A c \in DOMAIN calls :
          calls[c].pc # "idle"
          => /\ OwnTranscript(c, calls[c].messages)
             /\ calls[c].iteration_count = 0
                => /\ Len(calls[c].messages) = 2
                   /\ calls[c].tool_calls_made = <<>>
             /\ calls[c].submissions # <<>> => Len(calls[c].submissions[1]) = 2
             /\ \A i \in DOMAIN calls[c].submissions :
                   OwnTranscript(c, calls[c].submissions[i])
             /\ Len(calls[c].tool_calls_made) <= Len(calls[c].dispatched)
             /\ \A i \in DOMAIN calls[c].tool_calls_made :
                   calls[c].tool_calls_made[i] = RecordOf(calls[c].dispatched[i])
             /\ calls[c].returned # None
                => /\ calls[c].returned[1].records = calls[c].tool_calls_made
                   /\ Len(calls[c].returned[1].records) = Len(calls[c].dispatched)

\* call 1 has resubmitted after its tool results while call 2, started in
\* between with another text, is in the middle of its for loop
Wit_C20 ==
    /\ calls # <<>>
    /\ calls[1].pc = "awaiting"
    /\ calls[1].iteration_count = 2
    /\ Len(calls[1].submissions[2]) = 5
    /\ calls[2].pc = "dispatching"
    /\ calls[2].idx = 2
    /\ Len(calls[2].tool_calls_made) = 1
    /\ calls[1].user_message # calls[2].user_message

-----------------------------------------------------------------------------
(* _prune_message_history applied to arbitrary transcripts *)

MaxTurns == 4

\* the transcripts handed to _prune_message_history: any turns, any length
Transcripts ==
    UNION {[1..n -> {SystemTurn, UserTurn("tiles?"), ToolTurn(101, EmptyDict)}] :
             n \in 0..MaxTurns}

InitPrune ==
    /\ pc = "pruning"
    /\ user_message = ""
    /\ messages \in Transcripts
    /\ tool_calls_made = <<>>
    /\ iteration_count = 0
    /\ tool_calls = <<>>
    /\ idx = 0
    /\ returned = None
    /\ fault = ""
    /\ submissions = <<>>
    /\ responses = <<>>
    /\ dispatched = <<>>
    /\ handled = <<>>
    /\ calls = <<>>
    /\ tools = _build_tools
    /\ service = NoService

\* messages = self._prune_message_history(messages), applied once and then
\* once more to its own result; submissions keeps the arguments
Prune ==
    /\ pc \in {"pruning", "pruned"}
    /\ submissions' = Append(submissions, messages)
    /\ messages' = _prune_message_history(messages)
    /\ pc' = IF pc = "pruning" THEN "pruned" ELSE "pruned_twice"
    /\ UNCHANGED <<user_message, tool_calls_made, iteration_count, tool_calls, idx,
                   returned, fault, responses, dispatched, handled, calls, tools, service>>

NextPrune == Prune

SpecPrune == InitPrune /\ [][NextPrune]_vars

-----------------------------------------------------------------------------
(* process_query against a completion service that is a function of the
   transcript and never times out *)

\* what the service does with a transcript: answer with finish=stop, request
\* one route, request MaxReq tools, or reject the transcript as too long
ServiceAnswers == {"stop", "route", "dozen", "overflow"}

\* a service answers by the kind of transcript: the opening one, one that
\* ends with a successful tool result, one that ends with a failed one.
\* tools: the outcome of every remote request of a tool, "any" when the
\* remote services are not fixed
Policies ==
    [on_start : ServiceAnswers, on_success : ServiceAnswers,
     on_error : ServiceAnswers, tools : {"any"} \cup LoopOutcomes]

\* self.client.chat.completions.create(messages=t, ...) of the service p:
\* the ids of the requested calls are a function of the transcript too
Service(p, t) ==
    LET a == IF Len(t) = 2 THEN p.on_start
             ELSE IF Last(t).role = "tool" /\ Last(t).content[2].status = "success"
             THEN p.on_success
             ELSE p.on_error
    IN  CASE a = "stop" ->
               [raised |-> FALSE, exc |-> "",
                response |-> [finish_reason |-> "stop", content |-> Some("answer"),
                              tool_calls |-> <<>>]]
          [] a = "route" ->
               [raised |-> FALSE, exc |-> "",
                response |-> [finish_reason |-> "tool_calls", content |-> None,
                              tool_calls |-> ToolCalls(<<ReqRoute>>, Len(t))]]
          [] a = "dozen" ->
               [raised |-> FALSE, exc |-> "",
                response |-> [finish_reason |-> "tool_calls", content |-> None,
                              tool_calls |->
                                 ToolCalls([i \in 1..MaxReq |->
                                               IF i % 2 = 1 THEN ReqList ELSE ReqNotFound],
                                           Len(t))]]
          [] OTHER ->
               [raised |-> TRUE, exc |-> "context_length_exceeded",
                response |-> NoResponse]

InitDet ==
    /\ pc = "idle"
    /\ user_message = ""
    /\ messages = <<>>
    /\ tool_calls_made = <<>>
    /\ iteration_count = 0
    /\ tool_calls = <<>>
    /\ idx = 0
    /\ returned = None
    /\ fault = ""
    /\ submissions = <<>>
    /\ responses = <<>>
    /\ dispatched = <<>>
    /\ handled = <<>>
    /\ calls = <<>>
    /\ tools = _build_tools
    /\ service \in Policies

\* the await of the submission or of the resubmission completes
ServiceReplies ==
    /\ pc \in {"awaiting", "awaiting_retry"}
    /\ LET a == Service(service, messages)
       IN  IF a.raised
           THEN IF pc = "awaiting" THEN ModelRaises(a.exc) ELSE RetryRaises(a.exc)
           ELSE ModelResponds(a.response)

\* one pass of the for loop, the remote services answering as `service` fixes
DispatchDet(net) ==
    /\ service.tools # "any" => \A i \in DOMAIN net : net[i] = service.tools
    /\ Dispatch(net)

NextDet ==
    \/ \E m \in UserTexts : Start(m)
    \/ Submit
    \/ ServiceReplies
    \/ /\ pc = "dispatching"
       /\ \E net \in LoopNets(tool_calls[idx].name) : DispatchDet(net)

SpecDet == InitDet /\ [][NextDet]_vars

-----------------------------------------------------------------------------
(* The dispatching phase (specification Spec) *)

\* the assistant turn a replays the tool calls tcs: id, name and arguments
\* text of each, in order
Replays(a, tcs) ==
    /\ a.role = "assistant"
    /\ Len(a.tool_calls) = Len(tcs)
    /\ \A i \in DOMAIN tcs :
          /\ a.tool_calls[i].id = tcs[i].id
          /\ a.tool_calls[i].function.name = tcs[i].name
          /\ a.tool_calls[i].function.arguments = tcs[i].arguments

Step_C21 ==
    /\ (Answered /\ HasToolCalls(NewOutcome))
       => LET tcs == NewOutcome.response.tool_calls
          IN  /\ pc' = "dispatching" /\ idx' = 1 /\ tool_calls' = tcs
              /\ Len(messages') = Len(messages) + 1
              /\ SubSeq(messages', 1, Len(messages)) = messages
              /\ Replays(Last(messages'), tcs)
              /\ returned' = returned /\ submissions' = submissions
    /\ pc = "dispatching"
       => /\ submissions' = submissions /\ returned' = returned
          /\ pc' \in {"dispatching", "loop", "raised"}
    /\ (pc = "dispatching" /\ pc' = "loop")
       => LET n == Len(tool_calls)
              base == Len(dispatched') - n
          IN  /\ idx = n
              /\ base >= 0
              /\ \A i \in 1..n :
                    /\ dispatched'[base + i].tool = tool_calls[i].name
                    /\ dispatched'[base + i].input
                          = json_loads(tool_calls[i].arguments).value

\* C21: a response with tool calls puts the loop in its dispatching phase:
\* one assistant turn replaying exactly those calls is appended, and no
\* submission and no return takes place until every one of them has been
\* dispatched, in order.
Thm_C21 == [][Step_C21]_vars

Wit_C21 ==
    /\ pc = "loop"
    /\ iteration_count = 1
    /\ Len(tool_calls) = 2
    /\ tool_calls[1].name = "get_tile_provider_info"
    /\ Len(dispatched) = 2
    /\ dispatched[2].tool = "route"
    /\ Replays(messages[3], tool_calls)

Step_C22 ==
    /\ (pc = "dispatching" /\ dispatched' # dispatched)
       => LET tc == tool_calls[idx]
              d == Last(dispatched')
          IN  /\ Len(dispatched') = Len(dispatched) + 1
              /\ d.tool = tc.name
              /\ Len(messages) >= idx
              /\ Replays(messages[Len(messages) - idx + 1], tool_calls)
              /\ \A i \in 1..(idx - 1) :
                    LET turn == messages[Len(messages) - idx + 1 + i]
                    IN  turn.role = "tool" /\ turn.tool_call_id = tool_calls[i].id
              /\ Len(tool_calls_made) >= idx - 1
              /\ \A i \in 1..(idx - 1) :
                    tool_calls_made[Len(tool_calls_made) - (idx - 1) + i].tool
                       = tool_calls[i].name
              /\ ~d.raised
                 => /\ tool_calls_made' = Append(tool_calls_made, RecordOf(d))
                    /\ Len(messages') = Len(messages) + 1
                    /\ SubSeq(messages', 1, Len(messages)) = messages
                    /\ Last(messages').role = "tool"
                    /\ Last(messages').tool_call_id = tc.id
                    /\ idx' = idx + 1
    /\ pc = "dispatching" => (submissions' = submissions /\ responses' = responses)
    /\ pc \in {"awaiting", "awaiting_retry", "loop"} => dispatched' = dispatched

\* C22: the tool calls of a response are dispatched one at a time in order:
\* when call idx is dispatched the records and the tool turns of the calls
\* before it are in place, its own record and tool turn (with its id) follow
\* before the next dispatch, and no submission takes place meanwhile.
Thm_C22 == [][Step_C22]_vars

Wit_C22 ==
    /\ pc = "dispatching"
    /\ idx = 2
    /\ tool_calls[1].name = "lookup_weather"
    /\ Len(tool_calls_made) = 1
    /\ Last(messages).role = "tool"
    /\ Last(messages).tool_call_id = tool_calls[1].id

AllToolRequests == \A i \in DOMAIN responses : HasToolCalls(responses[i])

\* C27 (as claimed): while every submission is answered with tool calls,
\* process_query does not end: the loop goes on submitting and recording.
Cex_C27 == AllToolRequests => pc \notin {"returned", "raised"}

-----------------------------------------------------------------------------
(* The transcript over the iterations (specification Spec) *)

Inv_C23 == \A i \in DOMAIN submissions :
              Len(submissions[i]) >= 2 /\ Len(submissions[i]) <= 14

Step_C23 ==
    (pc = "loop" /\ submissions' # submissions)
    => /\ messages' = IF Len(messages) > 14 THEN <<messages[1], messages[2]>>
                      ELSE messages
       /\ submissions' = Append(submissions, messages')

Inv_C24 ==
    pc # "idle"
    => /\ Len(messages) >= 2
       /\ messages[1] = [role |-> "system", content |-> system_prompt]
       /\ messages[2] = [role |-> "user", content |-> user_message]

Step_C24 ==
    (pc # "idle" /\ Len(messages) >= 2 /\ Len(messages') >= 2)
    => /\ messages'[1] = messages[1]
       /\ messages'[2] = messages[2]
       /\ user_message' = user_message

\* C24: in every state of a query the transcript has at least two turns, the
\* first is the system turn and the second is the original user turn, and no
\* step (append, pruning, collapse) changes either of them.
Thm_C24 == []Inv_C24 /\ [][Step_C24]_vars

\* the resubmission after a context overflow in the second iteration
Wit_C24 ==
    /\ pc = "awaiting_retry"
    /\ tool_calls_made # <<>>
    /\ Len(messages) = 2
    /\ messages[2].content = user_message

RECURSIVE Blocks(_, _)
\* the turns of t from position i on are blocks: one assistant turn with
\* k >= 1 tool calls, then exactly k tool turns with the calls' ids in order
Blocks(t, i) ==
    IF i > Len(t) THEN TRUE
    ELSE /\ t[i].role = "assistant"
         /\ LET k == Len(t[i].tool_calls)
            IN  /\ k >= 1
                /\ i + k <= Len(t)
                /\ \A j \in 1..k :
                      /\ t[i + j].role = "tool"
                      /\ t[i + j].tool_call_id = t[i].tool_calls[j].id
                /\ Blocks(t, i + k + 1)

\* C26: every submitted transcript is well formed: after the system and the
\* user turn it consists of blocks of one assistant turn with k >= 1 tool
\* calls followed by exactly k tool turns with matching ids in order.
Thm_C26 ==
    \A i \in DOMAIN submissions :
        /\ Len(submissions[i]) >= 2
        /\ submissions[i][1].role = "system"
        /\ submissions[i][2].role = "user"
        /\ Blocks(submissions[i], 3)

\* a third submission made of two blocks, the second one with two calls
Wit_C26 ==
    /\ Len(submissions) = 3
    /\ Len(submissions[3]) = 7
    /\ Len(submissions[3][3].tool_calls) = 1
    /\ Len(submissions[3][5].tool_calls) = 2

Inv_C28 ==
    \A i \in DOMAIN responses :
        (responses[i].kind = "response"
         /\ (responses[i].response.finish_reason = "stop"
             \/ responses[i].response.tool_calls = <<>>))
        => /\ i = Len(responses)
           /\ pc = "returned"
           /\ returned # None
           /\ returned[1].records = tool_calls_made

Step_C28 ==
    pc = "returned"
    => /\ submissions' = submissions
       /\ dispatched' = dispatched
       /\ returned' = returned

\* C28: a submission answered with finish=stop or without tool calls ends
\* the query at that submission with an (answer, records) pair, and once the
\* query has returned there is no further submission and no further dispatch.
Thm_C28 == []Inv_C28 /\ [][Step_C28]_vars

\* the second submission is answered with finish=stop after twelve tool calls
Wit_C28 ==
    /\ pc = "returned"
    /\ Len(responses) = 2
    /\ HasToolCalls(responses[1])
    /\ responses[2].response.finish_reason = "stop"
    /\ returned[1].text = "answer"
    /\ Len(returned[1].records) = 12
    /\ Len(submissions) = 2

-----------------------------------------------------------------------------
(* poi_search and its widening radii (specification SpecTools) *)

NothingFound == {"empty", "timeout", "http_error"}

-----------------------------------------------------------------------------
(* Pruning as a function (specification SpecPrune) *)

Step_C25 ==
    /\ pc = "pruning"
       => messages' = IF Len(messages) <= 2 THEN messages
                      ELSE <<messages[1], messages[2]>>
    /\ pc = "pruned" => messages' = messages

-----------------------------------------------------------------------------
(* The reset to the first two turns (specification SpecDet) *)

Origin == <<SystemTurn, UserTurn(user_message)>>

\* a submission after the first one is the opening transcript again
Reset == \E i \in DOMAIN submissions : i > 1 /\ submissions[i] = Origin

\* the submissions made before the first reset
Period == (CHOOSE i \in DOMAIN submissions :
              /\ i > 1 /\ submissions[i] = Origin
              /\ \A j \in 2..(i - 1) : submissions[j] # Origin) - 1

RECURSIVE RequestsUpTo(_)
\* the tool calls requested by the first n outcomes
RequestsUpTo(n) ==
    IF n = 0 THEN 0 ELSE Len(responses[n].response.tool_calls) + RequestsUpTo(n - 1)

\* from the reset on, submissions, outcomes and dispatched requests repeat
\* those made from the start of the query, and the query has not returned
Repeats ==
    LET p == Period
        q == RequestsUpTo(p)
    IN  /\ \A j \in DOMAIN submissions : j > p => submissions[j] = submissions[j - p]
        /\ \A j \in DOMAIN responses :
              j > p => /\ responses[j].kind = responses[j - p].kind
                       /\ responses[j].exc = responses[j - p].exc
                       /\ responses[j].response = responses[j - p].response
        /\ \A j \in DOMAIN dispatched :
              j > q => /\ dispatched[j].tool = dispatched[j - q].tool
                       /\ dispatched[j].input = dispatched[j - q].input
        /\ pc # "returned"
        /\ returned = None

\* C29 (as claimed): against a service that is a function of the transcript
\* and never times out, once the transcript is reset to [System, User] the
\* loop repeats the submissions and dispatches made from the start of the
\* query and never returns.
Cex_C29 == Reset => Repeats

\* C29: against a service that is a function of the transcript and never times
\* out, when the result of every tool call is a function of its request or the
\* first response carries 12 or more tool calls, once the transcript is reset
\* to [System, User] the submissions and the dispatched requests repeat those
\* made from the start of the query and the query never returns; and a first
\* response with 12 or more tool calls makes the second submission such a reset.
Thm_C29 ==
    /\ (Reset /\ (service.tools # "any"
                  \/ Len(responses[1].response.tool_calls) >= 12))
       => Repeats
    /\ (Len(submissions) >= 2 /\ Len(responses[1].response.tool_calls) >= 12)
       => submissions[2] = Origin

\* the third submission of a query whose first response carried 12 calls
Wit_C29 ==
    /\ service.on_start = "dozen"
    /\ service.tools = "any"
    /\ Len(submissions) = 3
    /\ submissions[3] = Origin
    /\ Len(dispatched) = 24
    /\ Len(tool_calls_made) = 24

====
